---- MODULE Spec2Model ----
(***************************************************************************)
(* PMV prediction service (src/app.py): a Flask application that loads a   *)
(* regression model and a scaler at import time, serves POST /predict and  *)
(* three GET endpoints, and keeps the latest prediction and a history of   *)
(* at most 100 predictions in two module-level globals.                    *)
(*                                                                         *)
(* Floats are fixed-point integers in units of 1/Scale, plus NaN.  The     *)
(* scaler and the network are opaque: one inference either raises or       *)
(* yields any float of RawOutputs.                                         *)
(*                                                                         *)
(* Spec         requests handled one at a time, every kind of body         *)
(* HistorySpec  one sensor's readings, until the history has overflowed    *)
(* ClassifySpec direct calls of get_thermal_comfort_status                 *)
(* ConcSpec     predict() interleaved statement by statement               *)
(* RaceSpec     ConcSpec with two sensors                                  *)
(***************************************************************************)
EXTENDS Integers, Sequences, FiniteSets, TLC

VARIABLES
    model,                \* app.py:17/22  the model handle, or None
    scaler,               \* app.py:18/22  the scaler handle, or None
    latest_sensor_data,   \* app.py:25     the global dict
    sensor_data_history,  \* app.py:35     the global list
    now,                  \* the wall clock datetime.now() reads, in seconds
    request,              \* the request the last response answers
    response,             \* the last response sent
    produced,             \* history variable: every record built at line 95, in order
    artifacts,            \* whether each artifact file loads (fixed at startup)
    nreq,                 \* history variable: /predict requests received, up to MaxRequests
    pc,                   \* per worker thread: the statement it is about to run
    local,                \* per worker thread: predict()'s local variables
    peak,                 \* history variable: the greatest len(sensor_data_history) seen
    pmv_arg,              \* argument of a direct call of get_thermal_comfort_status
    status_ret            \* what that call returned

vars == <<model, scaler, latest_sensor_data, sensor_data_history, now, request,
          response, produced, artifacts, nreq, pc, local, peak,
          pmv_arg, status_ret>>

-----------------------------------------------------------------------------
(* Bounds of the model *)

\* Fixed-point resolution: 1.0 is Scale units.
Scale == 16
\* Raw model outputs and classifier arguments range over [-MaxAbs, MaxAbs].
MaxAbs == 4
\* The clock runs from 0 to MaxTime seconds.
MaxTime == 1
\* /predict requests in a run of Spec.
MaxRequests == 2
\* Successful /predict requests beyond the history's capacity in a run of
\* HistorySpec, ConcSpec or RaceSpec.
Extra == 2
\* Worker threads of ConcSpec.
NThreads == 2
\* In RaceSpec the second sensor posts only once all but VariedTail of the first
\* HistoryCap requests have got past validation and inference.
VariedTail == 2

-----------------------------------------------------------------------------
(* Python values *)

None == "None"
Loaded == "loaded"
\* float('nan'): a float that is neither below, equal to, nor above any float.
NaN == -1000000

IsNaN(x) == x = NaN
\* a < b and a <= b on floats: False whenever an operand is NaN.
Lt(a, b) == ~IsNaN(a) /\ ~IsNaN(b) /\ a < b
Le(a, b) == ~IsNaN(a) /\ ~IsNaN(b) /\ a <= b

Last(s) == s[Len(s)]

\* app.py:109  the history keeps at most this many records
HistoryCap == 100

-----------------------------------------------------------------------------
(* JSON request bodies *)

\* app.py:65
required_fields == <<"temperature", "humidity", "air_flow", "mrt">>
Fields == {required_fields[i] : i \in DOMAIN required_fields}

\* The reading a sensor sends for each field, in units of 1/Scale
\* (26, 55, 0.25 and 27).
Reading == [temperature |-> 26 * Scale, humidity |-> 55 * Scale,
            air_flow |-> Scale \div 4, mrt |-> 27 * Scale]
\* A second sensor's reading (24, 60, 0.5 and 25).
OddReading == [temperature |-> 24 * Scale, humidity |-> 60 * Scale,
               air_flow |-> Scale \div 2, mrt |-> 25 * Scale]

\* JSON values: a number, a string (holding a number's text or not), null, a list.
JNumber(x) == [type |-> "number", num |-> x, numeric |-> TRUE]
JNumStr(x) == [type |-> "string", num |-> x, numeric |-> TRUE]
JBadStr    == [type |-> "string", num |-> 0, numeric |-> FALSE]
JNull      == [type |-> "null", num |-> 0, numeric |-> FALSE]
JList      == [type |-> "list", num |-> 0, numeric |-> FALSE]

\* The values a request may carry under field f: its number; under the first
\* and the last field converted also a string that is no number and null, under
\* temperature the number's text, under mrt a list.
JsonValues(r, f) ==
    {JNumber(r[f])}
        \cup (IF f \in {"temperature", "mrt"} THEN {JBadStr, JNull} ELSE {})
        \cup (IF f = "temperature" THEN {JNumStr(r[f])} ELSE {})
        \cup (IF f = "mrt" THEN {JList} ELSE {})

\* A JSON object with the keys S, as get_json() returns it.
Objects(r, S) == {[isdict |-> TRUE, data |-> d] :
                    d \in {g \in [S -> UNION {JsonValues(r, f) : f \in S}] :
                             \A f \in S : g[f] \in JsonValues(r, f)}}
\* get_json() of the body "null".
NullBody == [isdict |-> FALSE, data |-> <<>>]

\* Every body Spec sends: each field absent or holding one of its values, or null.
Payloads == UNION {Objects(Reading, S) : S \in SUBSET Fields} \cup {NullBody}

ValidPayload(r) == [isdict |-> TRUE, data |-> [f \in Fields |-> JNumber(r[f])]]

-----------------------------------------------------------------------------
(* The scaler and the network *)

\* scaler.transform and model.predict (app.py:81-85): an exception, or a float.
Raises == [exc |-> TRUE, y |-> 0]
Returns(y) == [exc |-> FALSE, y |-> y]
\* The floats the network returns: the whole numbers in [-MaxAbs, MaxAbs], and NaN.
RawOutputs == {k * Scale : k \in (-MaxAbs)..MaxAbs} \cup {NaN}
Inferences == {Raises} \cup {Returns(y) : y \in RawOutputs}

-----------------------------------------------------------------------------
(* Pure functions of app.py *)

\* Mutant: the first test written -1.0 <= pmv < 1.0.
status_closed_at_minus_one(pmv) ==
    IF Le(-1 * Scale, pmv) /\ Lt(pmv, 1 * Scale) THEN "Normal"
    ELSE IF Lt(-2 * Scale, pmv) /\ Le(pmv, -1 * Scale) THEN "A bit Cool"
    ELSE IF Lt(-3 * Scale, pmv) /\ Le(pmv, -2 * Scale) THEN "Cool"
    ELSE IF Le(pmv, -3 * Scale) THEN "Cold"
    ELSE IF Le(1 * Scale, pmv) /\ Lt(pmv, 2 * Scale) THEN "A bit Warm"
    ELSE IF Le(2 * Scale, pmv) /\ Lt(pmv, 3 * Scale) THEN "Warm"
    ELSE "Hot"

\* app.py:38-52
get_thermal_comfort_status(pmv) ==
    IF Lt(-1 * Scale, pmv) /\ Lt(pmv, 1 * Scale) THEN "Normal"
    ELSE IF Lt(-2 * Scale, pmv) /\ Le(pmv, -1 * Scale) THEN "A bit Cool"
    ELSE IF Lt(-3 * Scale, pmv) /\ Le(pmv, -2 * Scale) THEN "Cool"
    ELSE IF Le(pmv, -3 * Scale) THEN "Cold"
    ELSE IF Le(1 * Scale, pmv) /\ Lt(pmv, 2 * Scale) THEN "A bit Warm"
    ELSE IF Le(2 * Scale, pmv) /\ Lt(pmv, 3 * Scale) THEN "Warm"
    ELSE "Hot"

\* numpy.clip(x, lo, hi) = minimum(maximum(x, lo), hi); NaN propagates.
np_clip(x, lo, hi) ==
    IF IsNaN(x) THEN NaN
    ELSE IF x < lo THEN lo
    ELSE IF x > hi THEN hi
    ELSE x

\* Mutant: the check stops at the first absent field.
missing_first(data) ==
    LET all == SelectSeq(required_fields, LAMBDA f : f \notin DOMAIN data)
    IN  IF all = <<>> THEN <<>> ELSE <<Head(all)>>

\* app.py:67  [field for field in required_fields if field not in data]
missing_fields(data) ==
    SelectSeq(required_fields, LAMBDA f : f \notin DOMAIN data)

\* float(v) for a JSON value v (app.py:72-75): the float, or the exception raised.
float_of(v) ==
    IF v.type = "number" THEN [exc |-> "", val |-> v.num]
    ELSE IF v.type = "string"
         THEN IF v.numeric THEN [exc |-> "", val |-> v.num]
              ELSE [exc |-> "ValueError", val |-> 0]
    ELSE [exc |-> "TypeError", val |-> 0]

\* The exception of the first of the four conversions that raises, or "".
RECURSIVE first_exc(_, _)
first_exc(data, i) ==
    IF i > Len(required_fields) THEN ""
    ELSE IF float_of(data[required_fields[i]]).exc # ""
         THEN float_of(data[required_fields[i]]).exc
    ELSE first_exc(data, i + 1)

-----------------------------------------------------------------------------
(* Responses *)

NoLocals == [data |-> <<>>, suhu |-> 0, humidity |-> 0, air_flow |-> 0, mrt |-> 0,
             pmv_value |-> 0, tc_status |-> ""]

\* jsonify({"error": ...}), status: what a failing /predict returns.  `error` names
\* the return statement; the body carries the message (and the exception's type
\* where the message is str(e)).
Unavailable ==      \* app.py:61
    [status |-> 500, error |-> "unavailable",
     body |-> [error |-> <<"Model atau scaler tidak dimuat dengan benar!">>],
     loc |-> NoLocals]
MissingError(missing) ==      \* app.py:69
    [status |-> 400, error |-> "missing",
     body |-> [error |-> <<"Parameter berikut harus diisi: ", missing>>],
     loc |-> NoLocals]
NonNumeric ==      \* app.py:77
    [status |-> 400, error |-> "nonnumeric",
     body |-> [error |-> <<"Semua parameter harus berupa angka!">>],
     loc |-> NoLocals]
Unexpected(e) ==      \* app.py:116-118
    [status |-> 500, error |-> "exception", body |-> [error |-> <<"str(e)", e>>],
     loc |-> NoLocals]
Success(loc) ==      \* app.py:114
    [status |-> 200, error |-> "",
     body |-> [pmv |-> loc.pmv_value, thermal_comfort |-> loc.tc_status],
     loc |-> loc]

\* The except clause of app.py:76 catches ValueError alone; any other exception
\* of the conversions reaches the handler of app.py:116.
CoercionFailure(e) == IF e = "ValueError" THEN NonNumeric ELSE Unexpected(e)

\* app.py:80-91  scale, predict, clip and classify the four floats.
Infer(data, inf) ==
    IF inf.exc THEN Unexpected("InferenceError")
    ELSE LET pmv_value == np_clip(inf.y, -3 * Scale, 3 * Scale)
             tc_status == get_thermal_comfort_status(pmv_value)
         IN  Success([data |-> data,
                      suhu |-> float_of(data["temperature"]).val,
                      humidity |-> float_of(data["humidity"]).val,
                      air_flow |-> float_of(data["air_flow"]).val,
                      mrt |-> float_of(data["mrt"]).val,
                      pmv_value |-> pmv_value,
                      tc_status |-> tc_status])

\* app.py:60-91  predict() up to the statement that touches the globals: the
\* response of an early return, or the locals of a request that goes on.
Outcome(m, sc, p, inf) ==
    IF m = None \/ sc = None THEN Unavailable
    ELSE IF ~p.isdict THEN Unexpected("TypeError")        \* `field not in None`
    ELSE IF missing_fields(p.data) # <<>> THEN MissingError(missing_fields(p.data))
    ELSE IF first_exc(p.data, 1) # "" THEN CoercionFailure(first_exc(p.data, 1))
    ELSE Infer(p.data, inf)

\* app.py:95-103  the dict assigned to latest_sensor_data.
NewRecord(loc, t) ==
    [time |-> t, temperature |-> loc.suhu, humidity |-> loc.humidity,
     air_flow |-> loc.air_flow, mrt |-> loc.mrt, pmv |-> loc.pmv_value,
     thermal_comfort |-> loc.tc_status]

\* Mutant: the test written len(sensor_data_history) >= 100.
TooLongAtCap(h) == Len(h) >= HistoryCap

\* Mutant: the test written len(sensor_data_history) > 101.
TooLongPastCap(h) == Len(h) > HistoryCap + 1

\* app.py:109  the test that guards pop(0).
TooLong(h) == Len(h) > HistoryCap

\* Mutant: pop() in place of pop(0).
pop_last(h) == SubSeq(h, 1, Len(h) - 1)

\* app.py:110  sensor_data_history.pop(0)
pop0(h) == Tail(h)

\* app.py:109-110
Trim(h) == IF TooLong(h) THEN pop0(h) ELSE h

\* app.py:25-32
Placeholder ==
    [temperature |-> None, humidity |-> None, air_flow |-> None, mrt |-> None,
     pmv |-> None, thermal_comfort |-> None]

\* Mutant: each handle set on its own, the one that loaded kept.
LoadEach(modelOk, scalerOk) ==
    [model |-> IF modelOk THEN Loaded ELSE None,
     scaler |-> IF scalerOk THEN Loaded ELSE None]

\* app.py:16-22  both handles, or neither: a failure of either load sets both to None.
LoadArtifacts(modelOk, scalerOk) ==
    IF modelOk /\ scalerOk THEN [model |-> Loaded, scaler |-> Loaded]
    ELSE [model |-> None, scaler |-> None]

Threads == 1..NThreads

-----------------------------------------------------------------------------
(* The service, one request at a time *)

NoRequest == [endpoint |-> "", payload |-> NullBody]
NoResponse == [status |-> 0, error |-> "", body |-> <<>>]

\* The state once app.py is imported.
Init ==
    /\ artifacts \in [modelOk : BOOLEAN, scalerOk : BOOLEAN]
    /\ model = LoadArtifacts(artifacts.modelOk, artifacts.scalerOk).model
    /\ scaler = LoadArtifacts(artifacts.modelOk, artifacts.scalerOk).scaler
    /\ latest_sensor_data = Placeholder
    /\ sensor_data_history = <<>>
    /\ now = 0
    /\ request = NoRequest
    /\ response = NoResponse
    /\ produced = <<>>
    /\ nreq = 0
    /\ pc = [t \in Threads |-> "idle"]
    /\ local = [t \in Threads |-> NoLocals]
    /\ peak = 0
    /\ pmv_arg = 0
    /\ status_ret = ""

workers == <<pc, local>>
classifier == <<pmv_arg, status_ret>>
handles == <<artifacts, model, scaler>>

\* A second passes.
Tick ==
    /\ now < MaxTime
    /\ now' = now + 1
    /\ UNCHANGED <<handles, latest_sensor_data, sensor_data_history, request, response,
                   produced, nreq, workers, peak, classifier>>

Max(a, b) == IF a > b THEN a ELSE b
Min(a, b) == IF a < b THEN a ELSE b

\* Mutant: the globals are assigned before the inference, from the four floats.
predict_store_first(p, inf) ==
    LET o == Outcome(model, scaler, p, inf)
        early == Outcome(model, scaler, p, Returns(0))
        rec == NewRecord(IF o.status = 200 THEN o.loc ELSE early.loc, now)
    IN  /\ request' = [endpoint |-> "/predict", payload |-> p]
        /\ response' = [status |-> o.status, error |-> o.error, body |-> o.body]
        /\ nreq' = Min(nreq + 1, MaxRequests)
        /\ IF early.status = 200
           THEN /\ latest_sensor_data' = rec
                /\ sensor_data_history' = Trim(Append(sensor_data_history, rec))
                /\ produced' = Append(produced, rec)
                /\ peak' = Max(peak, Len(sensor_data_history) + 1)
           ELSE UNCHANGED <<latest_sensor_data, sensor_data_history, produced, peak>>
        /\ UNCHANGED <<handles, now, workers, classifier>>

\* app.py:58-118  POST /predict with body p, the inference behaving as inf.
predict(p, inf) ==
    LET o == Outcome(model, scaler, p, inf)
        rec == NewRecord(o.loc, now)
    IN  /\ request' = [endpoint |-> "/predict", payload |-> p]
        /\ response' = [status |-> o.status, error |-> o.error, body |-> o.body]
        /\ nreq' = Min(nreq + 1, MaxRequests)
        /\ IF o.status = 200
           THEN /\ latest_sensor_data' = rec
                /\ sensor_data_history' = Trim(Append(sensor_data_history, rec))
                /\ produced' = Append(produced, rec)
                /\ peak' = Max(peak, Len(sensor_data_history) + 1)
           ELSE UNCHANGED <<latest_sensor_data, sensor_data_history, produced, peak>>
        /\ UNCHANGED <<handles, now, workers, classifier>>

Get(endpoint, body) ==
    /\ request' = [endpoint |-> endpoint, payload |-> NullBody]
    /\ response' = [status |-> 200, error |-> "", body |-> body]
    /\ UNCHANGED <<handles, latest_sensor_data, sensor_data_history, now, produced,
                   nreq, workers, peak, classifier>>

\* app.py:54-56
home == Get("/", [message |-> "PMV Prediction API is running!"])

\* app.py:121-123
get_sensor_data == Get("/get-sensor-data", latest_sensor_data)

\* app.py:126-128
get_sensor_data_history == Get("/get-sensor-data-history", sensor_data_history)

\* The ways the inference of a request with body p can go: it runs only when
\* app.py:81 is reached.
InferencesOf(p, all) ==
    IF Outcome(model, scaler, p, Raises).error = "exception"
       /\ Outcome(model, scaler, p, Returns(0)).status = 200
    THEN all ELSE {Raises}

Next ==
    \/ Tick
    \/ \E p \in Payloads : \E inf \in InferencesOf(p, Inferences) :
          nreq < MaxRequests /\ predict(p, inf)
    \/ home
    \/ get_sensor_data
    \/ get_sensor_data_history

Spec == Init /\ [][Next]_vars

-----------------------------------------------------------------------------
(* The service over a long run of one sensor's readings *)

\* The bodies of the long run: the sensor's reading, which changes once from
\* Reading to OddReading, and the reading with mrt left out.
Drifted == produced # <<>> /\ Last(produced).temperature = OddReading.temperature
SteadyPayloads ==
    (IF Drifted THEN {} ELSE {ValidPayload(Reading)})
        \cup {ValidPayload(OddReading),
              [isdict |-> TRUE, data |-> [f \in Fields \ {"mrt"} |-> JNumber(Reading[f])]]}
\* Its inferences: an exception, or the output 0.5.
SteadyInferences == {Raises, Returns(Scale \div 2)}

HistoryNext ==
    \/ \E p \in SteadyPayloads : \E inf \in InferencesOf(p, SteadyInferences) :
          Len(produced) < HistoryCap + Extra /\ predict(p, inf)
    \/ home
    \/ get_sensor_data
    \/ get_sensor_data_history

HistorySpec == Init /\ [][HistoryNext]_vars

-----------------------------------------------------------------------------
(* Direct calls of the classifier *)

\* The floats get_thermal_comfort_status is called with: every multiple of
\* 1/Scale in [-MaxAbs, MaxAbs], and NaN.
Floats == ((-(MaxAbs * Scale))..(MaxAbs * Scale)) \cup {NaN}

ClassifyInit ==
    /\ Init
    /\ artifacts = [modelOk |-> TRUE, scalerOk |-> TRUE]

\* status_ret = get_thermal_comfort_status(x)
Classify(x) ==
    /\ pmv_arg' = x
    /\ status_ret' = get_thermal_comfort_status(x)
    /\ UNCHANGED <<handles, latest_sensor_data, sensor_data_history, now, request,
                   response, produced, nreq, workers, peak>>

ClassifyNext == \E x \in Floats : Classify(x)

ClassifySpec == ClassifyInit /\ [][ClassifyNext]_vars

-----------------------------------------------------------------------------
(* The service under a threaded server: predict() statement by statement *)

\* One sensor posts its reading; in RaceSpec a second one joins when the history
\* is about to fill up.
ConcPayloads == {ValidPayload(Reading)}
RacePayloads == {ValidPayload(Reading), ValidPayload(OddReading)}
IsOdd(p) == p = ValidPayload(OddReading)

Started == Len(produced) + Cardinality({t \in Threads : pc[t] = "assign"})

\* app.py:60-91  thread t takes a request and runs predict() up to line 91; these
\* statements read the request and the handles only.  A failing request is
\* answered at once.
Begin(t, p, inf) ==
    LET o == Outcome(model, scaler, p, inf)
    IN  /\ pc[t] = "idle"
        /\ Started < HistoryCap + Extra
        /\ IsOdd(p) => Started >= HistoryCap - VariedTail
        /\ nreq' = Min(nreq + 1, MaxRequests)
        /\ IF o.status = 200
           THEN /\ pc' = [pc EXCEPT ![t] = "assign"]
                /\ local' = [local EXCEPT ![t] = o.loc]
                /\ UNCHANGED <<request, response>>
           ELSE /\ request' = [endpoint |-> "/predict", payload |-> p]
                /\ response' = [status |-> o.status, error |-> o.error, body |-> o.body]
                /\ UNCHANGED <<pc, local>>
        /\ UNCHANGED <<handles, latest_sensor_data, sensor_data_history, now, produced,
                       peak, classifier>>

\* app.py:95-103  latest_sensor_data = {...}
Assign(t) ==
    /\ pc[t] = "assign"
    /\ latest_sensor_data' = NewRecord(local[t], now)
    /\ produced' = Append(produced, NewRecord(local[t], now))
    /\ pc' = [pc EXCEPT ![t] = "append"]
    /\ UNCHANGED <<handles, sensor_data_history, now, request, response, nreq, local,
                   peak, classifier>>

\* app.py:106  sensor_data_history.append(latest_sensor_data)
AppendLatest(t) ==
    /\ pc[t] = "append"
    /\ sensor_data_history' = Append(sensor_data_history, latest_sensor_data)
    /\ peak' = Max(peak, Len(sensor_data_history) + 1)
    /\ pc' = [pc EXCEPT ![t] = "test"]
    /\ UNCHANGED <<handles, latest_sensor_data, now, request, response, produced, nreq,
                   local, classifier>>

\* app.py:109  if len(sensor_data_history) > 100
TestLength(t) ==
    /\ pc[t] = "test"
    /\ pc' = [pc EXCEPT ![t] = IF TooLong(sensor_data_history) THEN "pop" ELSE "respond"]
    /\ UNCHANGED <<handles, latest_sensor_data, sensor_data_history, now, request,
                   response, produced, nreq, local, peak, classifier>>

\* app.py:110  sensor_data_history.pop(0)
Pop(t) ==
    /\ pc[t] = "pop"
    /\ sensor_data_history' = pop0(sensor_data_history)
    /\ pc' = [pc EXCEPT ![t] = "respond"]
    /\ UNCHANGED <<handles, latest_sensor_data, now, request, response, produced, nreq,
                   local, peak, classifier>>

\* app.py:114  return jsonify({"pmv": pmv_value, "thermal_comfort": tc_status})
Respond(t) ==
    /\ pc[t] = "respond"
    /\ request' = [endpoint |-> "/predict",
                   payload |-> [isdict |-> TRUE, data |-> local[t].data]]
    /\ response' = [status |-> 200, error |-> "", body |-> Success(local[t]).body]
    /\ pc' = [pc EXCEPT ![t] = "idle"]
    /\ local' = [local EXCEPT ![t] = NoLocals]
    /\ UNCHANGED <<handles, latest_sensor_data, sensor_data_history, now, produced,
                   nreq, peak, classifier>>

\* A step of thread t, its requests drawn from the bodies P.
Step(t, P) ==
    \/ \E p \in P : \E inf \in InferencesOf(p, SteadyInferences) : Begin(t, p, inf)
    \/ Assign(t)
    \/ AppendLatest(t)
    \/ TestLength(t)
    \/ Pop(t)
    \/ Respond(t)

ConcNext == \E t \in Threads : Step(t, ConcPayloads)

RaceNext == \E t \in Threads : Step(t, RacePayloads)

\* Both artifacts load: a degraded server never reaches line 95.
ConcInit ==
    /\ Init
    /\ artifacts = [modelOk |-> TRUE, scalerOk |-> TRUE]

ConcSpec == ConcInit /\ [][ConcNext]_vars

RaceSpec == ConcInit /\ [][RaceNext]_vars

AllIdle == \A t \in Threads : pc[t] = "idle"

-----------------------------------------------------------------------------
(* Properties of the classifier (ClassifySpec) *)

\* The rows of the table of thresholds that hold of a real pmv.
TableRows(pmv) ==
    {row.label : row \in
        {r \in {[label |-> "Normal",     holds |-> -1 * Scale < pmv /\ pmv < 1 * Scale],
                [label |-> "A bit Cool", holds |-> -2 * Scale < pmv /\ pmv <= -1 * Scale],
                [label |-> "Cool",       holds |-> -3 * Scale < pmv /\ pmv <= -2 * Scale],
                [label |-> "Cold",       holds |-> pmv <= -3 * Scale],
                [label |-> "A bit Warm", holds |-> 1 * Scale <= pmv /\ pmv < 2 * Scale],
                [label |-> "Warm",       holds |-> 2 * Scale <= pmv /\ pmv < 3 * Scale],
                [label |-> "Hot",        holds |-> pmv >= 3 * Scale]} : r.holds}}

\* C3: for every real pmv, get_thermal_comfort_status returns a label, exactly
\* one row of the table holds of pmv, and the label returned is that row's; so
\* -1 yields "A bit Cool", 1 yields "A bit Warm", and the order of the tests does
\* not matter.
C3_ClassifierMatchesTable ==
    (status_ret # "" /\ ~IsNaN(pmv_arg)) => TableRows(pmv_arg) = {status_ret}

\* C3 witness: the classifier has been called on the boundary -1.0.
C3_Witness == pmv_arg = -1 * Scale /\ status_ret = "A bit Cool"

\* For NaN, of which no row holds, every test fails and the else branch answers.
NaNIsHot == (status_ret # "" /\ IsNaN(pmv_arg)) => status_ret = "Hot"

-----------------------------------------------------------------------------
(* Properties of the history (HistorySpec) *)

LastN(s, n) == SubSeq(s, Len(s) - n + 1, Len(s))

\* C1: after N successful predictions among any requests handled one at a time,
\* the history is the last min(N, 100) records produced, oldest first; so its
\* length is N up to 100 and 100 from then on.
C1_HistoryIsLastHundred ==
    sensor_data_history = LastN(produced, Min(Len(produced), HistoryCap))

\* C1 witness: more than 100 predictions have succeeded, and the record evicted
\* first differs from the oldest one kept.
C1_Witness ==
    /\ Len(produced) > HistoryCap
    /\ Len(sensor_data_history) = HistoryCap
    /\ produced[1] # sensor_data_history[1]

\* C2: once a request has completed, latest_sensor_data is the last element of a
\* non-empty history, and before any successful prediction it is the
\* placeholder whose six fields are all None.
C2_LatestIsLastOfHistory ==
    /\ sensor_data_history # <<>> => latest_sensor_data = Last(sensor_data_history)
    /\ produced = <<>> =>
          /\ DOMAIN latest_sensor_data =
                {"temperature", "humidity", "air_flow", "mrt", "pmv", "thermal_comfort"}
          /\ \A f \in DOMAIN latest_sensor_data : latest_sensor_data[f] = None

\* C2 witness: an eviction has happened, and the latest record differs from the
\* one before it.
C2_Witness ==
    /\ Len(produced) > HistoryCap
    /\ latest_sensor_data = Last(sensor_data_history)
    /\ latest_sensor_data # sensor_data_history[Len(sensor_data_history) - 1]

-----------------------------------------------------------------------------
(* Properties of /predict (Spec) *)

Available == model # None /\ scaler # None
IsPredict == request.endpoint = "/predict"
InRange(x) == Le(-3 * Scale, x) /\ Le(x, 3 * Scale)

\* The records the globals hold.
Stored ==
    {sensor_data_history[i] : i \in DOMAIN sensor_data_history}
        \cup (IF latest_sensor_data = Placeholder THEN {} ELSE {latest_sensor_data})

Clamped(r) ==
    /\ InRange(r.pmv)
    /\ r.thermal_comfort = get_thermal_comfort_status(r.pmv)
    /\ r.thermal_comfort = "Cold" => r.pmv = -3 * Scale
    /\ r.thermal_comfort = "Hot" => r.pmv = 3 * Scale

\* C4: whatever the network returns, the pmv of a 200 response and of every
\* stored record lies in [-3, 3], and the stored label is the classification of
\* that pmv, "Cold" only with -3 and "Hot" only with 3.
C4_PmvWithinRange ==
    /\ \A r \in Stored : Clamped(r)
    /\ (IsPredict /\ response.status = 200) => InRange(response.body.pmv)

\* What holds of the code: C4 for every output that is a number; NaN is stored
\* and returned as it is, with the label "Hot".
C4_ClampedUnlessNaN ==
    /\ \A r \in Stored : IF IsNaN(r.pmv) THEN r.thermal_comfort = "Hot" ELSE Clamped(r)
    /\ (IsPredict /\ response.status = 200) =>
          (IsNaN(response.body.pmv) \/ InRange(response.body.pmv))

Absent(p) == Fields \ DOMAIN p.data
Range(q) == {q[i] : i \in DOMAIN q}

\* C5: with the artifacts loaded, a JSON object that lacks a required key gets
\* 400 and the missing-fields message naming exactly the absent keys, each
\* once, whatever values the present keys hold.
C5_MissingFieldsNamed ==
    (IsPredict /\ Available /\ request.payload.isdict /\ Absent(request.payload) # {}) =>
        /\ response.status = 400
        /\ response.error = "missing"
        /\ response.body.error[1] = "Parameter berikut harus diisi: "
        /\ Range(response.body.error[2]) = Absent(request.payload)
        /\ Len(response.body.error[2]) = Cardinality(Absent(request.payload))

\* C5 witness: a body that lacks air_flow and mrt and carries a non-numeric
\* temperature has been answered.
C5_Witness ==
    /\ IsPredict /\ Available /\ request.payload.isdict
    /\ Absent(request.payload) = {"air_flow", "mrt"}
    /\ request.payload.data["temperature"] = JBadStr
    /\ response.status = 400

Uncoercible(p) == {f \in Fields : float_of(p.data[f]).exc # ""}

\* C6: with the artifacts loaded and all four keys present, a value that float()
\* rejects (a non-numeric string, null, a list) gets 400 and the generic
\* non-numeric message, never 500.
C6_CoercionFailureIs400 ==
    (IsPredict /\ Available /\ request.payload.isdict /\ Absent(request.payload) = {}
        /\ Uncoercible(request.payload) # {}) =>
        /\ response.status = 400
        /\ response.error = "nonnumeric"

\* What holds of the code: 400 when the first value float() rejects is a string,
\* 500 with the TypeError's message when it is null or a list.
C6_ValueErrorOnly ==
    (IsPredict /\ Available /\ request.payload.isdict /\ Absent(request.payload) = {}
        /\ Uncoercible(request.payload) # {}) =>
        LET first == CHOOSE i \in 1..4 :
                        /\ required_fields[i] \in Uncoercible(request.payload)
                        /\ \A j \in 1..(i - 1) :
                              required_fields[j] \notin Uncoercible(request.payload)
        IN  IF request.payload.data[required_fields[first]].type = "string"
            THEN response.status = 400 /\ response.error = "nonnumeric"
            ELSE response.status = 500 /\ response.error = "exception"

\* C7: when either artifact fails to load, both handles are None in every state
\* of the run, every /predict gets 500 "unavailable" whatever its body, the
\* globals keep their initial values, and the GET endpoints answer 200.
C7_DegradedMode ==
    (~artifacts.modelOk \/ ~artifacts.scalerOk) =>
        /\ model = None /\ scaler = None
        /\ IsPredict => response.status = 500 /\ response.error = "unavailable"
        /\ request.endpoint \in {"/", "/get-sensor-data", "/get-sensor-data-history"}
              => response.status = 200
        /\ latest_sensor_data = Placeholder /\ sensor_data_history = <<>>

\* C7 witness: the model loaded, the scaler did not, and a well-formed reading
\* has been refused.
C7_Witness ==
    /\ artifacts.modelOk /\ ~artifacts.scalerOk
    /\ IsPredict /\ request.payload = ValidPayload(Reading)
    /\ response.status = 500

\* C8: a step that changes latest_sensor_data or sensor_data_history is a
\* /predict answered 200; a /predict that fails, a GET and the clock leave both
\* as they were.
C8_OnlySuccessWrites ==
    [][(latest_sensor_data' # latest_sensor_data
            \/ sensor_data_history' # sensor_data_history)
        => (request'.endpoint = "/predict" /\ response'.status = 200 /\ now' = now)]_vars

\* C8 witness: after a successful prediction, a request whose inference raised
\* has been answered 500 and the history still holds the record.
C8_Witness ==
    /\ IsPredict /\ response.status = 500 /\ response.error = "exception"
    /\ request.payload = ValidPayload(Reading)
    /\ Len(sensor_data_history) = 1
    /\ latest_sensor_data = Last(sensor_data_history)

-----------------------------------------------------------------------------
(* Properties of the threaded server (ConcSpec, RaceSpec) *)

InFlight == {t \in Threads : pc[t] \in {"test", "pop"}}

\* C9 as stated: once overlapping appends have pushed the list two or more past
\* its capacity, the requests complete with more than 100 entries in it.
C9_CapBrokenAtCompletion ==
    (AllIdle /\ peak >= HistoryCap + 2) => Len(sensor_data_history) > HistoryCap

\* C9 amended: the list holds at most 100 entries plus one for each request
\* that has appended and not yet tested its length or popped; so it exceeds 100
\* only while requests are in flight, and holds at most 100 once all completed.
C9_CapPlusInFlight ==
    Len(sensor_data_history) <= HistoryCap + Cardinality(InFlight)

\* C9 witness: two appends both went past the capacity, both requests evicted,
\* and all requests have completed.
C9_Witness ==
    /\ AllIdle
    /\ peak >= HistoryCap + 2
    /\ Len(sensor_data_history) <= HistoryCap

Count(r, q) == Cardinality({i \in DOMAIN q : q[i] = r})

\* C10: once all requests have completed and none has evicted, every record
\* built by a request is in the history as often as it was built.
C10_OwnRecordAppended ==
    (AllIdle /\ Len(produced) <= HistoryCap) =>
        \A i \in DOMAIN produced :
            Count(produced[i], sensor_data_history) = Count(produced[i], produced)

====
